---- MODULE Spec2Model ----
(***************************************************************************)
(* Model of the ACWR pipeline of src/app.py: the module-level batch        *)
(* computation (merge, sort, per-metric outlier removal, rolling acute and *)
(* chronic means, ratio, latest row per player) followed by the Dash       *)
(* callback update_chart that reads the latest rows.                       *)
(*                                                                         *)
(* A DataFrame is a record [columns, rows]; a row is [idx, c] where idx is *)
(* the pandas index label and c maps column names to cells.  A cell is a   *)
(* record [k, n, d, s]: a string (k = "str"), a float64 held as the exact  *)
(* fraction n/d (k = "num"), NaN/NaT (k = "nan") or +-inf (k = "inf").     *)
(* All inputs are integers, so every quantile, bound and mean the pipeline *)
(* computes is a fraction that the model carries exactly.                  *)
(***************************************************************************)
EXTENDS Integers, Sequences, FiniteSets, TLC

VARIABLES
    workload_df,    \* MasterWorkload.csv as loaded (lines 10-11)
    positions_df,   \* positions.csv as loaded (line 14)
    merged_df,      \* the table the script rebinds from line 15 to line 57
    latest_df,      \* the latest row of every player (lines 60-64)
    upper,          \* metric -> player -> the local upper of the bounder's call
    pc,             \* the statement the script is at; "serve" once the app runs
    mi,             \* position of the running loop in metrics
    chart           \* what the last update_chart call returned or raised

vars == <<workload_df, positions_df, merged_df, latest_df, upper, pc, mi, chart>>

-----------------------------------------------------------------------------
(* Bounds of the model *)

\* rows of MasterWorkload.csv in the exhaustively enumerated inputs
MaxRows == 2
\* sessions of one player in the patterned long inputs (beyond the 28-row window)
MaxLong == 30

-----------------------------------------------------------------------------
(* Program constants *)

HSR == "High Speed Running"
DSL == "DSL"
metrics == <<HSR, DSL>>
AcuteWindow == 7
ChronicWindow == 28
MinPeriods == 1
\* multiplier = 2.5, held as MultiplierNum / MultiplierDen
MultiplierNum == 5
MultiplierDen == 2

PlayerName == "Player Name"
SessionDate == "Session Date"
Position == "Position"

AcuteCol(metric) == "Acute_" \o metric
ChronicCol(metric) == "Chronic_" \o metric
ACWRCol(metric) == "ACWR_" \o metric

-----------------------------------------------------------------------------
(* float64 cells *)

Abs(x) == IF x < 0 THEN -x ELSE x

RECURSIVE GCD(_, _)
GCD(a, b) == IF b = 0 THEN a ELSE GCD(b, a % b)

Str(s) == [k |-> "str", n |-> 0, d |-> 1, s |-> s]
NaN == [k |-> "nan", n |-> 0, d |-> 1, s |-> ""]
PosInf == [k |-> "inf", n |-> 1, d |-> 1, s |-> ""]
NegInf == [k |-> "inf", n |-> -1, d |-> 1, s |-> ""]

\* the fraction n/d in lowest terms with a positive denominator (d # 0)
Num(n, d) ==
    LET g == GCD(Abs(n), Abs(d))
        sg == IF d < 0 THEN -1 ELSE 1
    IN  [k |-> "num", n |-> (sg * n) \div g, d |-> (sg * d) \div g, s |-> ""]

Whole(n) == Num(n, 1)

IsNum(x) == x.k = "num"
IsNaN(x) == x.k = "nan"

FAdd(a, b) == IF IsNum(a) /\ IsNum(b) THEN Num(a.n * b.d + b.n * a.d, a.d * b.d) ELSE NaN
FSub(a, b) == IF IsNum(a) /\ IsNum(b) THEN Num(a.n * b.d - b.n * a.d, a.d * b.d) ELSE NaN
FMul(a, b) == IF IsNum(a) /\ IsNum(b) THEN Num(a.n * b.n, a.d * b.d) ELSE NaN

\* a < b and a <= b on float64: False as soon as one side is NaN
FLt(a, b) ==
    CASE IsNaN(a) \/ IsNaN(b) -> FALSE
      [] a.k = "inf" /\ b.k = "inf" -> a.n < b.n
      [] a.k = "inf" -> a.n < 0
      [] b.k = "inf" -> b.n > 0
      [] OTHER -> a.n * b.d < b.n * a.d

FLeq(a, b) ==
    CASE IsNaN(a) \/ IsNaN(b) -> FALSE
      [] OTHER -> FLt(a, b) \/ a = b

\* a / b on float64 Series: x/0 is +-inf, 0/0 and anything with NaN is NaN
FDiv(a, b) ==
    CASE ~(IsNum(a) /\ IsNum(b)) -> NaN
      [] b.n = 0 /\ a.n = 0 -> NaN
      [] b.n = 0 /\ a.n > 0 -> PosInf
      [] b.n = 0 /\ a.n < 0 -> NegInf
      [] OTHER -> Num(a.n * b.d, a.d * b.n)

-----------------------------------------------------------------------------
(* Sequences *)

Column(rows, col) == [i \in 1..Len(rows) |-> rows[i].c[col]]

\* s in ascending order, equal elements keeping their order in s (a stable
\* sort); before[i][j] says that s[i] is smaller than s[j].  s[i] lands after
\* the elements that are smaller and after the equal ones that precede it
StableSort(s, before) ==
    LET n == Len(s)
        rank == [i \in 1..n |->
                    Cardinality({j \in 1..n : \/ before[j][i]
                                              \/ (~before[i][j] /\ j < i)}) + 1]
    IN  [p \in 1..n |-> s[CHOOSE i \in 1..n : rank[i] = p]]

-----------------------------------------------------------------------------
(* DataFrames *)

\* pd.DataFrame(): no columns, no rows
EmptyFrame == [columns |-> {}, rows |-> <<>>]

Frame(columns, rows) == [columns |-> columns, rows |-> rows]

\* the order of Python strings on the player names of the model
NameOrder == <<"A", "B">>
NameRank(s) == CHOOSE i \in 1..Len(NameOrder) : NameOrder[i] = s.s
NameLess(a, b) == NameRank(a) < NameRank(b)

\* the order sort_values puts dates in: ascending, NaT last
DateLess(a, b) == IF IsNaN(a) THEN FALSE ELSE IF IsNaN(b) THEN TRUE ELSE FLt(a, b)

WorkloadColumns == {PlayerName, SessionDate, HSR, DSL}
PositionsColumns == {PlayerName, Position}

WorkloadRow(name, date, hsr, dsl) ==
    (PlayerName :> Str(name)) @@ (SessionDate :> date) @@ (HSR :> hsr) @@ (DSL :> dsl)

PositionsRow(name, position) ==
    (PlayerName :> Str(name)) @@ (Position :> position)

\* read_csv gives a RangeIndex: row i of the file has label i - 1
FromFile(columns, cells) ==
    Frame(columns, [i \in 1..Len(cells) |-> [idx |-> i - 1, c |-> cells[i]]])

-----------------------------------------------------------------------------
(* Inputs: the contents of MasterWorkload.csv and positions.csv *)

Players == {"A", "B"}
Dates == {Whole(1), Whole(2)}
\* a cell of the file is empty (NaN) or holds a number
HsrValues == {NaN, Whole(0), Whole(1)}
DslValues == {NaN, Whole(1)}

RowKinds ==
    {WorkloadRow(name, date, hsr, dsl) :
        name \in Players, date \in Dates, hsr \in HsrValues, dsl \in DslValues}

SeqsUpTo(S, n) == UNION {[1..k -> S] : k \in 0..n}

Registries ==
    { <<PositionsRow("B", NaN), PositionsRow("A", Str("FW"))>>,
      <<PositionsRow("A", Str("FW"))>> }

\* every file of at most MaxRows sessions, against each registry
SmallInputs ==
    {[w |-> FromFile(WorkloadColumns, s), p |-> FromFile(PositionsColumns, r)] :
        s \in SeqsUpTo(RowKinds, MaxRows), r \in Registries}

\* (ordinary value, value of the one exceptional session)
LongValues == {<<10, 100>>, <<5, -35>>, <<50, 50>>}

\* sessions are not one day apart: the day of the i-th session
LongDate(i) == i + 4 * (i \div 5)

\* n sessions of player A, the file listing the latest first; High Speed
\* Running is v[1] except v[2] at session at, DSL is the session's number
LongFile(n, at, v) ==
    [j \in 1..n |->
        LET i == n + 1 - j
        IN  WorkloadRow("A", Whole(LongDate(i)),
                        Whole(IF i = at THEN v[2] ELSE v[1]), Whole(i))]

\* histories no longer than the acute window plus one row, and histories
\* longer than the chronic window
LongLengths == (1..(AcuteWindow + 1)) \cup ((ChronicWindow + 1)..MaxLong)

LongInputs ==
    {[w |-> FromFile(WorkloadColumns, LongFile(n, at, v)),
      p |-> FromFile(PositionsColumns,
                     <<PositionsRow("B", NaN), PositionsRow("A", Str("FW"))>>)] :
        n \in LongLengths, at \in 1..MaxLong, v \in LongValues}

Inputs == SmallInputs \cup LongInputs

-----------------------------------------------------------------------------
(* Pipeline stages *)

RECURSIVE Flatten(_)
\* pd.concat of a sequence of row blocks
Flatten(blocks) ==
    IF blocks = <<>> THEN <<>> ELSE Head(blocks) \o Flatten(Tail(blocks))

Reindexed(rows) == [i \in 1..Len(rows) |-> [idx |-> i - 1, c |-> rows[i].c]]

\* left.merge(right, on=key, how="right"): every right row, in the right
\* frame's order, once per matching left row (in the left frame's order) or
\* once with the left columns NaN when none matches; a fresh RangeIndex
Merge(left, right, key) ==
    LET matches(r) == SelectSeq(left.rows, LAMBDA l : l.c[key] = r.c[key])
        joined(l, r) == [idx |-> 0, c |-> l.c @@ r.c]
        unmatched(r) ==
            [idx |-> 0, c |-> r.c @@ [col \in left.columns \ {key} |-> NaN]]
        block(r) ==
            LET found == matches(r)
            IN  IF found = <<>> THEN <<unmatched(r)>>
                ELSE [i \in 1..Len(found) |-> joined(found[i], r)]
    IN  Frame(left.columns \cup right.columns,
              Reindexed(Flatten([i \in 1..Len(right.rows) |-> block(right.rows[i])])))

CellLess(col, a, b) == IF col = PlayerName THEN NameLess(a, b) ELSE DateLess(a, b)

\* x before y in the lexicographic order of the columns by
LexLess(by, x, y) ==
    \E i \in 1..Len(by) :
        /\ \A j \in 1..(i - 1) : x.c[by[j]] = y.c[by[j]]
        /\ CellLess(by[i], x.c[by[i]], y.c[by[i]])

\* faulty variant of SortValues: the player column is left out of the key
SortValuesDateOnly(df, by) ==
    Frame(df.columns,
          StableSort(df.rows,
                     [i \in 1..Len(df.rows) |-> [j \in 1..Len(df.rows) |->
                         DateLess(df.rows[i].c[SessionDate], df.rows[j].c[SessionDate])]]))

\* df.sort_values(by=[...]) on several columns: a stable lexicographic sort
SortValues(df, by) ==
    Frame(df.columns,
          StableSort(df.rows,
                     [i \in 1..Len(df.rows) |-> [j \in 1..Len(df.rows) |->
                         LexLess(by, df.rows[i], df.rows[j])]]))

\* the keys df.groupby("Player Name") iterates over, in sorted order
GroupKeys(rows) ==
    LET names == {rows[i].c[PlayerName] : i \in 1..Len(rows)}
    IN  SelectSeq([i \in 1..Len(NameOrder) |-> Str(NameOrder[i])],
                  LAMBDA k : k \in names)

Group(rows, key) == SelectSeq(rows, LAMBDA r : r.c[PlayerName] = key)

\* Series.quantile(qn/qd): NaN skipped, linear interpolation between the two
\* order statistics around position (count - 1) * qn/qd; NaN when none is left
Quantile(cells, qn, qd) ==
    LET obs == SelectSeq(cells, IsNum)
        xs == StableSort(obs, [i \in 1..Len(obs) |-> [j \in 1..Len(obs) |-> FLt(obs[i], obs[j])]])
        h == (Len(xs) - 1) * qn
        lo == h \div qd + 1
        r == h % qd
    IN  IF xs = <<>> THEN NaN
        ELSE IF r = 0 THEN xs[lo]
        ELSE FAdd(xs[lo], FMul(Num(r, qd), FSub(xs[lo + 1], xs[lo])))

\* the local upper of remove_extreme_highs for one group
UpperBound(group, metric) ==
    LET cells == Column(group, metric)
        Q1 == Quantile(cells, 1, 4)
        Q3 == Quantile(cells, 3, 4)
        IQR == FSub(Q3, Q1)
    IN  FAdd(Q3, FMul(Num(MultiplierNum, MultiplierDen), IQR))

\* faulty variants of KeepRow: the comparison turned round, and a strict one
KeepRowFlipped(r, metric, bound) == FLeq(bound, r.c[metric])
KeepRowStrict(r, metric, bound) == FLt(r.c[metric], bound)

\* group[group[metric] <= upper]
KeepRow(r, metric, bound) == FLeq(r.c[metric], bound)

FilterGroup(group, metric) ==
    LET bound == UpperBound(group, metric)
    IN  SelectSeq(group, LAMBDA r : KeepRow(r, metric, bound))

\* remove_extreme_highs(df, metric): the filtered groups concatenated onto an
\* empty DataFrame, which keeps its lack of columns when df has no group
remove_extreme_highs(df, metric) ==
    LET keys == GroupKeys(df.rows)
    IN  IF keys = <<>> THEN EmptyFrame
        ELSE Frame(df.columns,
                   Flatten([i \in 1..Len(keys) |->
                               FilterGroup(Group(df.rows, keys[i]), metric)]))

\* the value of upper for every group of one remove_extreme_highs call
UppersOf(df, metric) ==
    LET keys == GroupKeys(df.rows)
    IN  [k \in {keys[i] : i \in 1..Len(keys)} |-> UpperBound(Group(df.rows, k), metric)]

RECURSIVE SumCells(_, _, _)
\* the sum of the non-NaN cells at positions lo..hi
SumCells(cells, lo, hi) ==
    IF lo > hi THEN Whole(0)
    ELSE IF IsNum(cells[hi]) THEN FAdd(SumCells(cells, lo, hi - 1), cells[hi])
         ELSE SumCells(cells, lo, hi - 1)

CountCells(cells, lo, hi) == Cardinality({i \in lo..hi : IsNum(cells[i])})

\* faulty variant of WindowStart: the window reaches one row too far back
WindowStartShifted(i, window) == IF i - window < 1 THEN 1 ELSE i - window

WindowStart(i, window) == IF i - window + 1 < 1 THEN 1 ELSE i - window + 1

\* .rolling(window, min_periods).mean() at position i of one group's values:
\* the mean of the observations among the last window rows, NaN when fewer
\* than min_periods of them are observations
WindowMean(cells, i, window) ==
    LET lo == WindowStart(i, window)
        cnt == CountCells(cells, lo, i)
    IN  IF cnt < MinPeriods \/ cnt = 0 THEN NaN
        ELSE FDiv(SumCells(cells, lo, i), Whole(cnt))

\* df.groupby("Player Name")[metric].rolling(...).mean().reset_index(0, drop=True):
\* one entry per row, labelled with the row's index label, group after group
RollingMean(df, metric, window) ==
    LET keys == GroupKeys(df.rows)
        block(key) ==
            LET g == Group(df.rows, key)
                cells == Column(g, metric)
            IN  [i \in 1..Len(g) |-> [idx |-> g[i].idx, v |-> WindowMean(cells, i, window)]]
    IN  Flatten([k \in 1..Len(keys) |-> block(keys[k])])

\* df[col] = series: each row takes the entry carrying its index label
Assign(df, col, series) ==
    LET at(r) == {i \in 1..Len(series) : series[i].idx = r.idx}
        cell(r) == IF at(r) = {} THEN NaN ELSE series[CHOOSE i \in at(r) : TRUE].v
    IN  Frame(df.columns \cup {col},
              [i \in 1..Len(df.rows) |->
                  [idx |-> df.rows[i].idx,
                   c |-> (col :> cell(df.rows[i])) @@ df.rows[i].c]])

\* df[a] / df[b] as a series
Ratio(df, a, b) ==
    [i \in 1..Len(df.rows) |->
        [idx |-> df.rows[i].idx, v |-> FDiv(df.rows[i].c[a], df.rows[i].c[b])]]

\* one pass of the loop of lines 44-57
AddACWR(df, metric) ==
    LET d1 == Assign(df, AcuteCol(metric), RollingMean(df, metric, AcuteWindow))
        d2 == Assign(d1, ChronicCol(metric), RollingMean(d1, metric, ChronicWindow))
    IN  Assign(d2, ACWRCol(metric), Ratio(d2, AcuteCol(metric), ChronicCol(metric)))

\* faulty variant of LatestChoices: head(1) in place of tail(1), the row of
\* each player's first date
LatestChoicesHead(df) ==
    LET rows == df.rows
        names == {rows[i].c[PlayerName] : i \in 1..Len(rows)}
        first(k) == {i \in 1..Len(rows) :
                        /\ rows[i].c[PlayerName] = k
                        /\ \A j \in 1..Len(rows) :
                              rows[j].c[PlayerName] = k =>
                                  ~DateLess(rows[j].c[SessionDate], rows[i].c[SessionDate])}
        picks == {f \in [names -> 1..Len(rows)] : \A k \in names : f[k] \in first(k)}
        orders(f) ==
            {s \in [1..Cardinality(names) -> {f[k] : k \in names}] :
                /\ \A a, b \in DOMAIN s : a # b => s[a] # s[b]
                /\ \A a, b \in DOMAIN s :
                      a < b => ~DateLess(rows[s[b]].c[SessionDate], rows[s[a]].c[SessionDate])}
    IN  {Frame(df.columns, [a \in DOMAIN s |-> rows[s[a]]]) :
            s \in UNION {orders(f) : f \in picks}}

\* the rows .sort_values("Session Date").groupby("Player Name").tail(1) can
\* return.  The single-column sort is pandas' default quicksort, which is not
\* stable: rows with equal dates may come out in any order, so any row of a
\* player holding the player's last date can be the player's tail row, and the
\* tail rows with equal dates can be listed in any order.
LatestChoices(df) ==
    LET rows == df.rows
        names == {rows[i].c[PlayerName] : i \in 1..Len(rows)}
        last(k) == {i \in 1..Len(rows) :
                       /\ rows[i].c[PlayerName] = k
                       /\ \A j \in 1..Len(rows) :
                             rows[j].c[PlayerName] = k =>
                                 ~DateLess(rows[i].c[SessionDate], rows[j].c[SessionDate])}
        picks == {f \in [names -> 1..Len(rows)] : \A k \in names : f[k] \in last(k)}
        orders(f) ==
            {s \in [1..Cardinality(names) -> {f[k] : k \in names}] :
                /\ \A a, b \in DOMAIN s : a # b => s[a] # s[b]
                /\ \A a, b \in DOMAIN s :
                      a < b => ~DateLess(rows[s[b]].c[SessionDate], rows[s[a]].c[SessionDate])}
    IN  {Frame(df.columns, [a \in DOMAIN s |-> rows[s[a]]]) :
            s \in UNION {orders(f) : f \in picks}}

\* the lambda of line 118: comparisons with NaN are False
BarColor(x) == IF FLt(x, Num(8, 10)) THEN "blue"
               ELSE IF FLt(Num(15, 10), x) THEN "red" ELSE "grey"

\* the figure update_chart builds: one bar per row in the frame's order
Figure(df, selected_metric) ==
    [status |-> "ok",
     title |-> selected_metric,
     bars |-> [i \in 1..Len(df.rows) |->
                 [name |-> df.rows[i].c[PlayerName].s,
                  acute |-> df.rows[i].c[AcuteCol(selected_metric)],
                  chronic |-> df.rows[i].c[ChronicCol(selected_metric)],
                  color |-> BarColor(df.rows[i].c[ACWRCol(selected_metric)])]]]

Raised(error) == [status |-> error, title |-> "", bars |-> <<>>]

\* update_chart(selected_position, selected_metric); "" stands for None
update_chart(selected_position, selected_metric) ==
    LET df0 == IF selected_position # ""
               THEN Frame(latest_df.columns,
                          SelectSeq(latest_df.rows,
                                    LAMBDA r : r.c[Position] = Str(selected_position)))
               ELSE latest_df
        acute_col == AcuteCol(selected_metric)
        chronic_col == ChronicCol(selected_metric)
        df1 == Frame(df0.columns,
                     SelectSeq(df0.rows,
                               LAMBDA r : ~(IsNaN(r.c[acute_col]) /\ IsNaN(r.c[chronic_col]))))
    IN  IF selected_position # "" /\ Position \notin latest_df.columns
            THEN Raised("KeyError")
        ELSE IF ~({acute_col, chronic_col} \subseteq df0.columns)
            THEN Raised("KeyError")
        ELSE Figure(df1, selected_metric)

-----------------------------------------------------------------------------
(* The program: the module-level script, then the callback *)

\* what the dropdowns can send, and values no dropdown option carries
SelectedPositions == {"", "FW", "XX"}
SelectedMetrics == {HSR, DSL, "Total Distance"}

NoChart == [status |-> "none", title |-> "", bars |-> <<>>]

\* lines 10-14: both files are loaded
Init ==
    /\ \E in \in Inputs :
          /\ workload_df = in.w
          /\ positions_df = in.p
    /\ merged_df = EmptyFrame
    /\ latest_df = EmptyFrame
    /\ upper = <<>>
    /\ pc = "merge"
    /\ mi = 0
    /\ chart = NoChart

\* line 15
MergeStep ==
    /\ pc = "merge"
    /\ merged_df' = Merge(workload_df, positions_df, PlayerName)
    /\ pc' = "sort"
    /\ UNCHANGED <<workload_df, positions_df, latest_df, upper, mi, chart>>

\* line 18
SortStep ==
    /\ pc = "sort"
    /\ merged_df' = SortValues(merged_df, <<PlayerName, SessionDate>>)
    /\ pc' = "bound"
    /\ mi' = 1
    /\ UNCHANGED <<workload_df, positions_df, latest_df, upper, chart>>

\* faulty variant of BoundStep: every metric is bounded against the joined
\* and sorted table, whatever the earlier iterations removed
BoundStepIndependent ==
    /\ pc = "bound"
    /\ \E bounds \in {UppersOf(SortValues(Merge(workload_df, positions_df, PlayerName),
                                          <<PlayerName, SessionDate>>),
                               metrics[mi])} :
           /\ merged_df' =
                 Frame(merged_df.columns,
                       SelectSeq(merged_df.rows,
                                 LAMBDA r : KeepRow(r, metrics[mi], bounds[r.c[PlayerName]])))
           /\ upper' = (metrics[mi] :> bounds) @@ upper
    /\ IF mi < Len(metrics)
       THEN mi' = mi + 1 /\ pc' = "bound"
       ELSE mi' = 1 /\ pc' = "roll"
    /\ UNCHANGED <<workload_df, positions_df, latest_df, chart>>

\* lines 38-39, one iteration; groupby raises KeyError on a frame without
\* the Player Name column
BoundStep ==
    /\ pc = "bound"
    /\ IF PlayerName \notin merged_df.columns
       THEN /\ pc' = "crashed"
            /\ UNCHANGED <<merged_df, upper, mi>>
       ELSE /\ merged_df' = remove_extreme_highs(merged_df, metrics[mi])
            /\ upper' = (metrics[mi] :> UppersOf(merged_df, metrics[mi])) @@ upper
            /\ IF mi < Len(metrics)
               THEN mi' = mi + 1 /\ pc' = "bound"
               ELSE mi' = 1 /\ pc' = "roll"
    /\ UNCHANGED <<workload_df, positions_df, latest_df, chart>>

\* lines 44-57, one iteration; groupby raises KeyError on a frame without
\* the Player Name column (the bounder returned pd.DataFrame() because no
\* row was left to group).  A frame that kept its columns and lost its rows
\* is taken through with empty series.
RollStep ==
    /\ pc = "roll"
    /\ IF PlayerName \notin merged_df.columns
       THEN /\ pc' = "crashed"
            /\ UNCHANGED <<merged_df, mi>>
       ELSE /\ merged_df' = AddACWR(merged_df, metrics[mi])
            /\ IF mi < Len(metrics)
               THEN mi' = mi + 1 /\ pc' = "roll"
               ELSE mi' = 0 /\ pc' = "latest"
    /\ UNCHANGED <<workload_df, positions_df, latest_df, upper, chart>>

\* lines 60-64
LatestStep ==
    /\ pc = "latest"
    /\ latest_df' \in LatestChoices(merged_df)
    /\ pc' = "serve"
    /\ UNCHANGED <<workload_df, positions_df, merged_df, upper, mi, chart>>

\* lines 98-162: the callback, on any dropdown values
UpdateChart ==
    /\ pc = "serve"
    /\ \E selected_position \in SelectedPositions, selected_metric \in SelectedMetrics :
          chart' = update_chart(selected_position, selected_metric)
    /\ UNCHANGED <<workload_df, positions_df, merged_df, latest_df, upper, pc, mi>>

Next ==
    \/ MergeStep
    \/ SortStep
    \/ BoundStep
    \/ RollStep
    \/ LatestStep
    \/ UpdateChart

Spec == Init /\ [][Next]_vars

-----------------------------------------------------------------------------
(* Vocabulary of the properties *)

RowSet(rows) == {rows[i] : i \in 1..Len(rows)}
NamesOf(rows) == {rows[i].c[PlayerName] : i \in 1..Len(rows)}
MetricSet == {metrics[i] : i \in 1..Len(metrics)}

\* the athletes of the enriched table: the right join keeps the registry's
RegistryNames == NamesOf(positions_df.rows)

\* the joined and sorted table the bounding starts from
Enriched == SortValues(Merge(workload_df, positions_df, PlayerName), <<PlayerName, SessionDate>>)

Windowed(metric) == ACWRCol(metric) \in merged_df.columns

\* Q3 + 2.5 * (Q3 - Q1) over the metric values of a group of rows
IqrBound(group, metric) ==
    LET q1 == Quantile(Column(group, metric), 1, 4)
        q3 == Quantile(Column(group, metric), 3, 4)
    IN  FAdd(q3, FMul(Num(5, 2), FSub(q3, q1)))

RECURSIVE IntSum(_, _, _, _)
\* the sum of the (integer) metric values of rows lo..hi of g
IntSum(g, metric, lo, hi) ==
    IF lo > hi THEN 0 ELSE g[lo].c[metric].n + IntSum(g, metric, lo + 1, hi)

Max0(x) == IF x < 1 THEN 1 ELSE x

\* the mean of the metric over the last width rows up to row i of g
TrailingMean(g, metric, i, width) ==
    Num(IntSum(g, metric, Max0(i - width + 1), i), i - Max0(i - width + 1) + 1)

-----------------------------------------------------------------------------
(* C1 *)

SnapshotsOf(k) == {i \in 1..Len(latest_df.rows) : latest_df.rows[i].c[PlayerName] = k}

NoHistory(k) == \A i \in 1..Len(workload_df.rows) : workload_df.rows[i].c[PlayerName] # k

\* C1: once the pipeline has run, every athlete of the enriched table (every
\* athlete of the position registry) has exactly one Snapshot, and an athlete
\* without any load record has one whose acute, chronic and acwr are undefined.
C1_EveryAthleteHasSnapshot ==
    pc = "serve" =>
        \A k \in RegistryNames :
            /\ Cardinality(SnapshotsOf(k)) = 1
            /\ NoHistory(k) =>
                  \A i \in SnapshotsOf(k), m \in MetricSet :
                      /\ IsNaN(latest_df.rows[i].c[AcuteCol(m)])
                      /\ IsNaN(latest_df.rows[i].c[ChronicCol(m)])
                      /\ IsNaN(latest_df.rows[i].c[ACWRCol(m)])

-----------------------------------------------------------------------------
(* C3 *)

Zero == Whole(0)

\* C3: a record whose chronic average is zero has an undefined acwr (not an
\* infinite or numeric one), gets none of the three risk classes in the
\* chart, and is still among the bars of an unfiltered selection.
C3_ZeroChronicIsUndefined ==
    /\ \A m \in MetricSet :
          Windowed(m) =>
              \A i \in 1..Len(merged_df.rows) :
                  merged_df.rows[i].c[ChronicCol(m)] = Zero =>
                      IsNaN(merged_df.rows[i].c[ACWRCol(m)])
    /\ chart.status = "ok" =>
          \A i \in 1..Len(chart.bars) :
              chart.bars[i].chronic = Zero =>
                  chart.bars[i].color \notin {"blue", "red", "grey"}
    /\ pc = "serve" =>
          \A m \in MetricSet, i \in 1..Len(latest_df.rows) :
              latest_df.rows[i].c[ChronicCol(m)] = Zero =>
                  \E b \in 1..Len(update_chart("", m).bars) :
                      update_chart("", m).bars[b].name = latest_df.rows[i].c[PlayerName].s

-----------------------------------------------------------------------------
(* C4 *)

ExampleSpike == FromFile(WorkloadColumns, LongFile(8, 8, <<10, 100>>))
ExampleSingle == FromFile(WorkloadColumns, LongFile(1, 1, <<50, 50>>))

LastRowOf(k) == LET g == Group(merged_df.rows, Str(k)) IN g[Len(g)]

\* C4: for every metric and every row i of an athlete's ordered surviving
\* rows, the acute average is the mean of that athlete's values over the rows
\* max(first, i-6)..i and the chronic average the mean over max(first, i-27)..i,
\* both defined for every i; the sessions 10,10,10,10,10,10,10,100 end with
\* acute = chronic = 10 and acwr = 1, a single session of 50 with both at 50.
C4_RowIndexedWindows ==
    /\ \A m \in MetricSet :
          Windowed(m) =>
              \A k \in NamesOf(merged_df.rows) :
                  LET g == Group(merged_df.rows, k)
                  IN  \A i \in 1..Len(g) :
                          /\ IsNum(g[i].c[AcuteCol(m)])
                          /\ IsNum(g[i].c[ChronicCol(m)])
                          /\ g[i].c[AcuteCol(m)] = TrailingMean(g, m, i, 7)
                          /\ g[i].c[ChronicCol(m)] = TrailingMean(g, m, i, 28)
    /\ (workload_df = ExampleSpike /\ Windowed(HSR)) =>
          /\ Len(Group(merged_df.rows, Str("A"))) = 7
          /\ LastRowOf("A").c[AcuteCol(HSR)] = Whole(10)
          /\ LastRowOf("A").c[ChronicCol(HSR)] = Whole(10)
          /\ LastRowOf("A").c[ACWRCol(HSR)] = Whole(1)
    /\ (workload_df = ExampleSingle /\ Windowed(HSR)) =>
          /\ LastRowOf("A").c[AcuteCol(HSR)] = Whole(50)
          /\ LastRowOf("A").c[ChronicCol(HSR)] = Whole(50)

\* a row beyond the 28th whose acute and chronic averages both differ from the
\* mean of the athlete's whole history up to it, and from each other
C4_Witness ==
    /\ Windowed(HSR)
    /\ Windowed(DSL)
    /\ \E k \in NamesOf(merged_df.rows) :
          LET g == Group(merged_df.rows, k)
          IN  \E i \in 1..Len(g) :
                  /\ i > 28
                  /\ g[i].c[ChronicCol(HSR)] # TrailingMean(g, HSR, i, i)
                  /\ g[i].c[AcuteCol(HSR)] # g[i].c[ChronicCol(HSR)]
                  /\ g[i].c[AcuteCol(DSL)] # g[i].c[ChronicCol(DSL)]

-----------------------------------------------------------------------------
(* C5 *)

\* C5: every athlete with a row in the windowed table has exactly one
\* Snapshot, it is one of the athlete's own rows, and its session date is the
\* greatest among the athlete's rows; no other athlete has a Snapshot.
C5_SnapshotIsLatestRow ==
    pc = "serve" =>
        /\ NamesOf(latest_df.rows) \subseteq NamesOf(merged_df.rows)
        /\ \A k \in NamesOf(merged_df.rows) :
              LET g == Group(merged_df.rows, k)
              IN  /\ Cardinality(SnapshotsOf(k)) = 1
                  /\ \A i \in SnapshotsOf(k) :
                        /\ latest_df.rows[i] \in RowSet(g)
                        /\ \A j \in 1..Len(g) :
                              FLeq(g[j].c[SessionDate], latest_df.rows[i].c[SessionDate])

\* an athlete with surviving sessions on different days, the file listing
\* the later one first
C5_Witness ==
    /\ pc = "serve"
    /\ \E i, j \in 1..Len(workload_df.rows) :
          /\ i < j
          /\ workload_df.rows[i].c[PlayerName] = workload_df.rows[j].c[PlayerName]
          /\ FLt(workload_df.rows[j].c[SessionDate], workload_df.rows[i].c[SessionDate])
          /\ \E a, b \in RowSet(merged_df.rows) :
                /\ a.idx = i - 1 /\ b.idx # a.idx
                /\ a.c[PlayerName] = b.c[PlayerName]
                /\ a.c[SessionDate] # b.c[SessionDate]

-----------------------------------------------------------------------------
(* C2, C6, C10: one invocation of the bounder *)

\* a step that is one returning call of remove_extreme_highs, on metrics[mi]
BounderCall == pc = "bound" /\ pc' # "crashed"

\* the upper bound of every athlete of rows for the metric
BoundsOf(rows, metric) == [k \in NamesOf(rows) |-> IqrBound(Group(rows, k), metric)]

\* C2: one invocation of the bounder keeps exactly the rows whose metric value
\* is at most the athlete's upper bound Q3 + 2.5 * (Q3 - Q1) or is missing,
\* and drops exactly the rows above the bound; a row with a missing value is
\* never dropped.
C2_KeepsLowAndMissing ==
    [][BounderCall =>
          \A upper_bound \in {BoundsOf(merged_df.rows, metrics[mi])} :
              merged_df'.rows =
                  SelectSeq(merged_df.rows,
                            LAMBDA r : \/ IsNaN(r.c[metrics[mi]])
                                       \/ FLeq(r.c[metrics[mi]],
                                               upper_bound[r.c[PlayerName]]))]_vars

\* C6: one invocation of the bounder returns a sub-collection of its input:
\* the retained rows are input rows, unaltered and in place, no athlete has
\* more rows than before, and every retained value is at most the upper bound
\* computed from the athlete's input group.
C6_BounderReturnsSubCollection ==
    [][BounderCall =>
          \A upper_bound \in {BoundsOf(merged_df.rows, metrics[mi])},
             out \in {merged_df'.rows} :
              /\ \A labels \in {{out[i].idx : i \in 1..Len(out)}} :
                    out = SelectSeq(merged_df.rows, LAMBDA r : r.idx \in labels)
              /\ \A k \in NamesOf(merged_df.rows) :
                    Len(Group(out, k)) <= Len(Group(merged_df.rows, k))
              /\ \A i \in 1..Len(out) :
                    FLeq(out[i].c[metrics[mi]], upper_bound[out[i].c[PlayerName]])]_vars

\* the first invocation has dropped a session with a recorded value of an
\* athlete and kept others of the same athlete
C6_Witness ==
    /\ pc = "bound"
    /\ mi = 2
    /\ \E r \in RowSet(Enriched.rows) :
          /\ IsNum(r.c[HSR])
          /\ r \notin RowSet(merged_df.rows)
          /\ Group(merged_df.rows, r.c[PlayerName]) # <<>>

\* C10: one invocation of the bounder (multiplier 2.5 >= 0) never drops a row
\* holding the least recorded value of its athlete, so every athlete with a
\* recorded value keeps a row, an athlete with a single recorded row included.
C10_LeastValueSurvives ==
    [][BounderCall =>
          \A k \in NamesOf(merged_df.rows) :
              \A g \in {Group(merged_df.rows, k)}, out \in {Group(merged_df'.rows, k)} :
                  LET m == metrics[mi]
                      recorded == {i \in 1..Len(g) : IsNum(g[i].c[m])}
                  IN  /\ \A i \in recorded :
                            (\A j \in recorded : FLeq(g[i].c[m], g[j].c[m])) =>
                                \E o \in 1..Len(out) : out[o] = g[i]
                      /\ recorded # {} => out # <<>>]_vars

\* after the first invocation an athlete with one single row, holding a
\* recorded value, still has it, while another athlete lost a row
C10_Witness ==
    /\ pc = "bound"
    /\ mi = 2
    /\ \E k \in NamesOf(Enriched.rows) :
          /\ Len(Group(Enriched.rows, k)) = 1
          /\ IsNum(Group(Enriched.rows, k)[1].c[HSR])
          /\ Group(merged_df.rows, k) = Group(Enriched.rows, k)
    /\ Len(merged_df.rows) < Len(Enriched.rows)

-----------------------------------------------------------------------------
(* C7 *)

\* the rows of the enriched table within the bounds recorded for the first
\* n metrics
Survivors(enriched, n) ==
    SelectSeq(enriched,
              LAMBDA r : \A j \in 1..n :
                  /\ r.c[PlayerName] \in DOMAIN upper[metrics[j]]
                  /\ FLeq(r.c[metrics[j]], upper[metrics[j]][r.c[PlayerName]]))

\* C7: bounding is a fold over the metric list: the upper bound used for the
\* n-th metric is computed over exactly the rows that survived the bounding of
\* the metrics before it (stated of the bounds recorded so far, in the states
\* of the bounding loop and at its exit; upper does not change afterwards),
\* and a rolling average exists only once every metric has been bounded, over
\* rows within every metric's bound.
C7_SequentialFold ==
    /\ (pc = "bound" \/ (pc = "roll" /\ mi = 1)) =>
          \A enriched \in {Enriched.rows} :
              \A n \in 1..Len(metrics) :
                  metrics[n] \in DOMAIN upper =>
                      /\ \A j \in 1..n : metrics[j] \in DOMAIN upper
                      /\ \A survivors \in {Survivors(enriched, n - 1)} :
                            upper[metrics[n]] = BoundsOf(survivors, metrics[n])
    /\ \A m \in MetricSet :
          AcuteCol(m) \in merged_df.columns =>
              /\ DOMAIN upper = MetricSet
              /\ \A i \in 1..Len(merged_df.rows), b \in MetricSet :
                    FLeq(merged_df.rows[i].c[b], upper[b][merged_df.rows[i].c[PlayerName]])

\* bounding is over and the bound used for DSL differs from the one the
\* athlete's rows of the enriched table give: a row removed for High Speed
\* Running did not count
C7_Witness ==
    /\ pc = "roll"
    /\ mi = 1
    /\ merged_df.rows # <<>>
    /\ LET whole == BoundsOf(Enriched.rows, DSL)
       IN  \E k \in DOMAIN upper[DSL] : upper[DSL][k] # whole[k]

-----------------------------------------------------------------------------
(* C8 *)

\* C8: update_chart never fails: a metric outside the configured set or a
\* position matching no athlete falls back to no filtering, never raising and
\* never returning an empty set because of the unrecognized value.
C8_SelectionNeverFails ==
    /\ chart.status \in {"none", "ok"}
    /\ pc = "serve" =>
          \A m \in MetricSet : update_chart("XX", m) = update_chart("", m)

-----------------------------------------------------------------------------
(* C9 *)

SortedByNameDate(rows) ==
    \A i \in 1..(Len(rows) - 1) :
        ~LexLess(<<PlayerName, SessionDate>>, rows[i + 1], rows[i])

Labels(rows) == [i \in 1..Len(rows) |-> rows[i].idx]

\* C9: from the sort after the join up to the rolling averages the table is
\* ordered by (athlete ascending, session date ascending), and the rows a
\* bounder invocation retains stand in the relative order they had before it.
C9_OrderedByAthleteAndDate ==
    /\ [](pc \in {"bound", "roll", "latest"} => SortedByNameDate(merged_df.rows))
    /\ [][BounderCall =>
             \A kept \in {{merged_df'.rows[i].idx : i \in 1..Len(merged_df'.rows)}} :
                 Labels(merged_df'.rows) =
                     SelectSeq(Labels(merged_df.rows), LAMBDA x : x \in kept)]_vars

\* bounding is over, the joined table was not in (athlete, date) order, the
\* bounder removed rows and left an athlete sessions on different days
C9_Witness ==
    /\ pc = "roll"
    /\ ~SortedByNameDate(Merge(workload_df, positions_df, PlayerName).rows)
    /\ Len(merged_df.rows) < Len(Enriched.rows)
    /\ \E i, j \in 1..Len(merged_df.rows) :
          /\ merged_df.rows[i].c[PlayerName] = merged_df.rows[j].c[PlayerName]
          /\ merged_df.rows[i].c[SessionDate] # merged_df.rows[j].c[SessionDate]

====
